---- MODULE Spec2Model ----
(***************************************************************************)
(* A model of rostermangler.py: Person records and their merge, Family     *)
(* aggregates and their derived views, the family builder, the age filter, *)
(* the printed roster and the mailing-list reconciliation.                 *)
(*                                                                         *)
(* Strings are sequences of character codes (ASCII), so that lower(),      *)
(* split(), startswith(), endswith() and the lexicographic order of        *)
(* Python's str are computed rather than assumed.  Python's None is the    *)
(* value None below, which is no string.                                   *)
(***************************************************************************)
EXTENDS Integers, Sequences, FiniteSets, TLC

VARIABLES
    \* ---- Person.update, run both ways on a pair of persons
    this, other, thisUpdated, otherUpdated, upc,
    \* ---- Family.family_name on a set of last names
    last_names, family_name, npc,
    \* ---- Family.family_phone and Family.family_email on one family
    cfam, family_phone, family_email, cpc,
    \* ---- the roster operation: the family builder, the age filter, the report
    sheet,          \* the rows of the Members sheet, header popped
    adults_sheet,   \* the rows of the Adult Volunteers sheet, header popped
    min_age,        \* roster's member_min_age (0: not given)
    families,       \* the list of families being built
    row_i,          \* position of the member row the loop is at
    adults,         \* the persons made from the Adult Volunteers sheet
    adult_i,        \* position of the adult the unification loop is at
    filtered,       \* filter_min_age's list of kept families
    num_members,    \* filter_min_age's count of kept children
    fam_i,          \* position of the family the filter loop is at
    pc,             \* where the run is
    err,            \* the exception that ended the run ("none": none)
    full_html,      \* roster's full_html
    roster_families,\* roster's list of families once sorted by family name
    out_i,          \* position of the family the report loop is at
    stdout,         \* the lines printed to standard output
    stderr,         \* the lines printed to standard error
    \* ---- the merge operation: roster against mailing list
    members_rows,         \* the rows of the Members sheet, header popped
    volunteer_rows,       \* the rows of the Adult Volunteers sheet, header popped
    mailchimp_rows,       \* the rows of the mailing-list CSV, header popped
    members_email_dict, adults_email_dict, mailchimp_email_dict,
    possible_rm,          \* the rows written to possible_remove.csv
    possible_add,         \* the rows written to possible_add.csv
    mpc

varsUpdate == <<this, other, thisUpdated, otherUpdated, upc>>
varsName == <<last_names, family_name, npc>>
varsContact == <<cfam, family_phone, family_email, cpc>>
varsReport == <<full_html, roster_families, out_i, stdout, stderr>>
varsBuild == <<sheet, adults_sheet, min_age, families, row_i, adults, adult_i,
               filtered, num_members, fam_i, pc, err, varsReport>>
varsMerge == <<members_rows, volunteer_rows, mailchimp_rows, members_email_dict,
               adults_email_dict, mailchimp_email_dict, possible_rm, possible_add, mpc>>
vars == <<varsUpdate, varsName, varsContact, varsBuild, varsMerge>>

----------------------------------------------------------------------------
(* Strings *)

\* Python's None: a value that is no string (no string holds the code -1).
None == <<-1>>

\* Truthiness of a str-or-None value: None and "" are falsy.
Truthy(v) == v # None /\ v # <<>>

\* str.lower() on one ASCII character.
LowerChar(c) == IF c \in 65..90 THEN c + 32 ELSE c

\* str.lower()
Lower(s) == [k \in DOMAIN s |-> LowerChar(s[k])]

\* s.startswith(p)
StartsWith(s, p) == Len(p) <= Len(s) /\ SubSeq(s, 1, Len(p)) = p

\* s.endswith(p)
EndsWith(s, p) == Len(p) <= Len(s) /\ SubSeq(s, Len(s) - Len(p) + 1, Len(s)) = p

\* s < t in Python's order on str: lexicographic by code point.
RECURSIVE StrLess(_, _)
StrLess(s, t) ==
    IF t = <<>> THEN FALSE
    ELSE IF s = <<>> THEN TRUE
    ELSE IF s[1] # t[1] THEN s[1] < t[1]
    ELSE StrLess(Tail(s), Tail(t))

\* ", ": the separator of the combined name cell and of the role join.
CommaSpace == <<44, 32>>

\* s.split(sep): the parts of s between the occurrences of sep, left to right.
RECURSIVE SplitFrom(_, _, _)
SplitFrom(s, sep, cur) ==
    IF s = <<>> THEN <<cur>>
    ELSE IF StartsWith(s, sep)
         THEN <<cur>> \o SplitFrom(SubSeq(s, Len(sep) + 1, Len(s)), sep, <<>>)
         ELSE SplitFrom(Tail(s), sep, Append(cur, s[1]))

Split(s, sep) == SplitFrom(s, sep, <<>>)

\* A printed line: the text of the print call, with the values it is
\* formatted with in the order of their placeholders.
Line(text, values) == [text |-> text, values |-> values]

----------------------------------------------------------------------------
(* Person *)

\* The outcome of an operation that raised: the exception's type.
Raised(kind) == [raised |-> kind]
IsRaised(x) == DOMAIN x = {"raised"}

\* Person.__init__ with first_name and last_name given.
Person(first_name, last_name, phone, email, age, nickname, role, address, city) ==
    [first_name |-> first_name, last_name |-> last_name, phone |-> phone,
     email |-> Lower(email), age |-> age, nickname |-> nickname, role |-> role,
     address |-> address, city |-> city]

\* Person.__init__ with last_name_first_name given: "Last, First" is split on
\* ", " and unpacked into two names, which raises ValueError unless the split
\* yields exactly two parts; a falsy cell leaves the default empty names.
PersonCombined(last_name_first_name, phone, email, age, nickname, role, address, city) ==
    IF Truthy(last_name_first_name)
    THEN LET parts == Split(last_name_first_name, CommaSpace)
         IN  IF Len(parts) = 2
             THEN Person(parts[2], parts[1], phone, email, age, nickname, role,
                         address, city)
             ELSE Raised("ValueError")
    ELSE Person(<<>>, <<>>, phone, email, age, nickname, role, address, city)

\* Person.__eq__: identity, the case-insensitive (first_name, last_name).
PersonEq(a, b) ==
    /\ Lower(a.first_name) = Lower(b.first_name)
    /\ Lower(a.last_name) = Lower(b.last_name)

\* Person.valid
Valid(p) == p.first_name # <<>> /\ p.last_name # <<>>

\* Person._update_attr: the receiver after the field is updated, or the
\* ValueError of an unresolved conflict.
UpdateAttr(t, o, fld, resolve) ==
    IF Truthy(t[fld]) /\ Truthy(o[fld]) /\ t[fld] # o[fld]
    THEN CASE resolve = "concat" -> [t EXCEPT ![fld] = t[fld] \o CommaSpace \o o[fld]]
           [] resolve = "replace" -> [t EXCEPT ![fld] = o[fld]]
           [] OTHER -> Raised("ValueError")
    ELSE [t EXCEPT ![fld] = o[fld]]

\* The fields Person.update visits, in its order, each with its resolve mode.
UpdateFields ==
    << <<"phone", "none">>, <<"email", "replace">>, <<"nickname", "none">>,
       <<"role", "concat">>, <<"address", "none">>, <<"city", "none">> >>

RECURSIVE UpdateFrom(_, _, _)
UpdateFrom(t, o, k) ==
    IF k > Len(UpdateFields) THEN t
    ELSE LET r == UpdateAttr(t, o, UpdateFields[k][1], UpdateFields[k][2])
         IN  IF IsRaised(r) THEN r ELSE UpdateFrom(r, o, k + 1)

\* Person.update: the receiver after the merge, or the ValueError raised.  (The
\* fields written before a conflict raises stay written in the Python object;
\* no caller catches the exception, so that object is never read again.)
Update(t, o) ==
    IF ~PersonEq(t, o) THEN Raised("ValueError") ELSE UpdateFrom(t, o, 1)

----------------------------------------------------------------------------
(* Person.update on a pair of persons, run in both directions *)

\* The largest number of field values a person pair is drawn from, per field.
MaxFieldValues == 2

\* The k-th sample value of a field: a one-character string.
Sample(base, k) == <<base + k>>

SampleSet(base) == {Sample(base, k) : k \in 1..MaxFieldValues}

\* The receiver's field values: phone and email are str (never None), the
\* optional fields default to None.
ThisPersons ==
    { Person(<<65>>, <<66>>, ph, em, 0, nn, ro, ad, ci) :
        ph \in {<<>>} \cup SampleSet(48), em \in {<<>>, Sample(100, 1)},
        nn \in {None, Sample(109, 1)}, ro \in {None, Sample(113, 1)},
        ad \in {None, Sample(116, 1)}, ci \in {None, Sample(119, 1)} }

\* The incoming person: the same name, the same name in another case, or
\* another last name.
OtherPersons ==
    { Person(nm[1], nm[2], ph, em, 0, nn, ro, ad, ci) :
        nm \in {<<<<65>>, <<66>>>>, <<<<97>>, <<98>>>>, <<<<65>>, <<67>>>>},
        ph \in {<<>>} \cup SampleSet(48), em \in {<<>>} \cup SampleSet(100),
        nn \in {None, Sample(109, 1)}, ro \in {None} \cup SampleSet(113),
        ad \in {None, Sample(116, 1)}, ci \in {None, <<>>} \cup SampleSet(119) }

\* Not started: the value of a result that has not been computed.
Pending == [pending |-> TRUE]

InitUpdate ==
    /\ this \in ThisPersons
    /\ other \in OtherPersons
    /\ thisUpdated = Pending
    /\ otherUpdated = Pending
    /\ upc = "start"

\* this.update(other)
UpdateThis ==
    /\ upc = "start"
    /\ thisUpdated' = Update(this, other)
    /\ upc' = "forward"
    /\ UNCHANGED <<this, other, otherUpdated, varsName, varsContact, varsBuild, varsMerge>>

\* other.update(this), on fresh copies of the same two persons
UpdateOther ==
    /\ upc = "forward"
    /\ otherUpdated' = Update(other, this)
    /\ upc' = "done"
    /\ UNCHANGED <<this, other, thisUpdated, varsName, varsContact, varsBuild, varsMerge>>

NextUpdate == UpdateThis \/ UpdateOther

IdleUpdate ==
    /\ this = Pending /\ other = Pending
    /\ thisUpdated = Pending /\ otherUpdated = Pending /\ upc = "idle"

(* C2: after this.update(other) on two persons of the same identity, each of
   phone, nickname, address and city holds the non-empty value whenever one
   side has one and the two sides do not hold different non-empty values; in
   particular the receiver's non-empty value survives an empty or None
   incoming value.  (The claim as stated.) *)
C2_NonEmptySideWins ==
    (upc # "start" /\ PersonEq(this, other) /\ ~IsRaised(thisUpdated)) =>
        \A f \in {"phone", "nickname", "address", "city"} :
            ~(Truthy(this[f]) /\ Truthy(other[f]) /\ this[f] # other[f]) =>
                /\ Truthy(this[f]) => thisUpdated[f] = this[f]
                /\ Truthy(other[f]) => thisUpdated[f] = other[f]

\* No field is non-empty on both sides.
DisjointFields(a, b) ==
    \A f \in {"phone", "email", "nickname", "role", "address", "city"} :
        ~(Truthy(a[f]) /\ Truthy(b[f]))

(* C6: for two valid persons of the same identity whose non-empty fields are
   disjoint, this.update(other) and other.update(this) leave the same phone,
   email, nickname, address and city in their receivers, "" and None counting
   as the same empty value.  (The claim as stated.) *)
C6_UpdateCommutes ==
    (upc = "done" /\ Valid(this) /\ Valid(other) /\ PersonEq(this, other)
        /\ DisjointFields(this, other)) =>
        /\ ~IsRaised(thisUpdated) /\ ~IsRaised(otherUpdated)
        /\ \A f \in {"phone", "email", "nickname", "address", "city"} :
              \/ thisUpdated[f] = otherUpdated[f]
              \/ ~Truthy(thisUpdated[f]) /\ ~Truthy(otherUpdated[f])

----------------------------------------------------------------------------
(* Family.family_name *)

\* " family" and " and "
FamilySuffix == <<32, 102, 97, 109, 105, 108, 121>>
AndJoiner == <<32, 97, 110, 100, 32>>

\* The least string of a non-empty set in Python's order.
MinStr(S) == CHOOSE x \in S : \A y \in S : y = x \/ StrLess(x, y)

\* list(names) followed by list.sort(): the strings of a set in ascending order.
RECURSIVE SortedNames(_)
SortedNames(S) ==
    IF S = {} THEN <<>>
    ELSE LET m == MinStr(S) IN <<m>> \o SortedNames(S \ {m})

\* sep.join(names)
RECURSIVE Join(_, _)
Join(sep, names) ==
    IF names = <<>> THEN <<>>
    ELSE IF Len(names) = 1 THEN names[1]
    ELSE names[1] \o sep \o Join(sep, Tail(names))

\* The nested loops of family_name from position (ia, ib) on: name_a is the
\* outer loop's name and name_b the inner loop's.
RECURSIVE ScanNames(_, _, _)
ScanNames(names, ia, ib) ==
    IF ia > Len(names) THEN Join(AndJoiner, names) \o FamilySuffix
    ELSE IF ib > Len(names) THEN ScanNames(names, ia + 1, 1)
    ELSE LET name_a == names[ia]
             name_b == names[ib]
         IN  IF name_a # name_b /\ (StartsWith(name_a, name_b) \/ EndsWith(name_a, name_b))
             THEN name_a \o FamilySuffix
             ELSE ScanNames(names, ia, ib + 1)

\* The same loops returning the inner loop's name.
RECURSIVE ScanNamesReturnsInner(_, _, _)
ScanNamesReturnsInner(names, ia, ib) ==
    IF ia > Len(names) THEN Join(AndJoiner, names) \o FamilySuffix
    ELSE IF ib > Len(names) THEN ScanNamesReturnsInner(names, ia + 1, 1)
    ELSE LET name_a == names[ia]
             name_b == names[ib]
         IN  IF name_a # name_b /\ (StartsWith(name_a, name_b) \/ EndsWith(name_a, name_b))
             THEN name_b \o FamilySuffix
             ELSE ScanNamesReturnsInner(names, ia, ib + 1)

FamilyNameReturnsInner(names) == ScanNamesReturnsInner(SortedNames(names), 1, 1)

\* Family.family_name, as a function of Family.last_names.
FamilyName(names) == ScanNames(SortedNames(names), 1, 1)

\* The largest number of distinct last names in a family.
MaxLastNames == 4

\* The last names families are drawn from: "A", "AB", "B", "C", "CA", "D", "ZB".
NamePool ==
    {<<65>>, <<65, 66>>, <<66>>, <<67>>, <<67, 65>>, <<68>>, <<90, 66>>}

InitName ==
    /\ last_names \in {S \in SUBSET NamePool : Cardinality(S) <= MaxLastNames}
    /\ family_name = None
    /\ npc = "start"

\* Reading the family_name property.
ReadFamilyName ==
    /\ npc = "start"
    /\ family_name' = FamilyName(last_names)
    /\ npc' = "done"
    /\ UNCHANGED <<last_names, varsUpdate, varsContact, varsBuild, varsMerge>>

NextName == ReadFamilyName

\* The pairs (a, b) of distinct names with a a prefix or suffix of b.
ContainedIn(a, b) == a # b /\ (StartsWith(b, a) \/ EndsWith(b, a))

\* The claimed scan: a in the outer loop, b in the inner loop, the first pair
\* with a contained in b decides, and b is returned.
RECURSIVE ClaimedScan(_, _, _)
ClaimedScan(names, ia, ib) ==
    IF ia > Len(names) THEN Join(AndJoiner, names) \o FamilySuffix
    ELSE IF ib > Len(names) THEN ClaimedScan(names, ia + 1, 1)
    ELSE IF ContainedIn(names[ia], names[ib]) THEN names[ib] \o FamilySuffix
    ELSE ClaimedScan(names, ia, ib + 1)

(* C3 as stated: family_name is b + " family" for the first pair (a outer, b
   inner) of the sorted names in which a is a prefix or suffix of b, and the
   sorted names joined by " and " plus " family" when there is no such pair. *)
C3_FirstContainedPairReturnsB ==
    npc = "done" => family_name = ClaimedScan(SortedNames(last_names), 1, 1)

\* The names that have another name of the set as a prefix or suffix.
Containers(S) == {a \in S : \E b \in S : ContainedIn(b, a)}

(* C3 as amended: family_name is a + " family" for the first pair (a outer, b
   inner) of the sorted names in which b is a prefix or suffix of a, that is,
   for the least name that starts or ends with another name of the set; and
   the sorted names joined by " and " plus " family" when no name does. *)
C3_FirstContainingNameWins ==
    npc = "done" =>
        IF Containers(last_names) = {}
        THEN family_name = Join(AndJoiner, SortedNames(last_names)) \o FamilySuffix
        ELSE family_name = MinStr(Containers(last_names)) \o FamilySuffix

\* A family with two containment pairs whose name has been read.
C3_Witness == npc = "done" /\ Cardinality(Containers(last_names)) >= 2

----------------------------------------------------------------------------
(* Family and its shared contact values *)

\* Family.__init__ keeping every person it is given.
FamilyKeepsAll(parents, children) == [parents |-> parents, children |-> children]

\* Family.__init__: only the valid persons are kept.
Family(parents, children) ==
    [parents |-> SelectSeq(parents, Valid), children |-> SelectSeq(children, Valid)]

\* self.parents + self.children
Members(fam) == fam.parents \o fam.children

\* collections.Counter(values).items(): each distinct value with its number of
\* occurrences, in the order the values are first met.
RECURSIVE CounterItems(_, _)
CounterItems(values, items) ==
    IF values = <<>> THEN items
    ELSE LET v == Head(values)
             at == {k \in DOMAIN items : items[k][1] = v}
         IN  IF at = {}
             THEN CounterItems(Tail(values), Append(items, <<v, 1>>))
             ELSE LET k == CHOOSE k \in at : TRUE
                  IN  CounterItems(Tail(values),
                                   [items EXCEPT ![k] = <<v, items[k][2] + 1>>])

\* The position of the first item with the largest count.
FirstLargest(items) ==
    CHOOSE k \in DOMAIN items :
        /\ \A j \in DOMAIN items : items[j][2] <= items[k][2]
        /\ \A j \in 1..(k - 1) : items[j][2] < items[k][2]

\* items without the one at position k.
Without(items, k) == SubSeq(items, 1, k - 1) \o SubSeq(items, k + 1, Len(items))

\* Counter.most_common(n): the n items of largest count, largest first, items
\* of equal count in the order they were first met.
RECURSIVE MostCommon(_, _)
MostCommon(items, n) ==
    IF n = 0 \/ items = <<>> THEN <<>>
    ELSE LET k == FirstLargest(items)
         IN  <<items[k]>> \o MostCommon(Without(items, k), n - 1)

\* The values of a sequence of (value, count) items.
RECURSIVE ItemValues(_)
ItemValues(items) ==
    IF items = <<>> THEN <<>> ELSE <<Head(items)[1]>> \o ItemValues(Tail(items))

\* Counter.most_common(2) with the non-repeated and empty values dropped.
KeepRepeated(item) == item[2] > 1 /\ Truthy(item[1])

\* The list both family_phone and family_email build from the members' values.
CommonValues(values) ==
    ItemValues(SelectSeq(MostCommon(CounterItems(values, <<>>), 2), KeepRepeated))

\* Family.family_phone
FamilyPhone(fam) == CommonValues([k \in DOMAIN Members(fam) |-> Members(fam)[k].phone])

\* Family.family_email
FamilyEmail(fam) == CommonValues([k \in DOMAIN Members(fam) |-> Members(fam)[k].email])

\* The largest number of members of a family whose contact values are read.
MaxMembers == 6

\* The contact values members hold: "", "x" and "y".
ContactValues == {<<>>, <<120>>, <<121>>}

\* The elements of a sequence.
Range(q) == {q[k] : k \in DOMAIN q}

\* The sequences of at most n values.
SeqsUpTo(S, n) == UNION {[1..m -> S] : m \in 0..n}

\* The family whose k-th member has phone values[k] and the email that the
\* k-th member from the end has as phone; the first two members are parents.
ContactFamily(values) ==
    LET n == Len(values)
        member(k) == Person(<<64 + k>>, <<83>>, values[k], values[n + 1 - k], 0,
                            None, None, None, None)
        all == [k \in 1..n |-> member(k)]
    IN  Family(SubSeq(all, 1, IF n < 2 THEN n ELSE 2), SubSeq(all, 3, n))

InitContact ==
    /\ cfam \in {ContactFamily(v) : v \in SeqsUpTo(ContactValues, MaxMembers)}
    /\ family_phone = None
    /\ family_email = None
    /\ cpc = "start"

\* Reading the family_phone property.
ReadFamilyPhone ==
    /\ cpc = "start"
    /\ family_phone' = FamilyPhone(cfam)
    /\ cpc' = "phone"
    /\ UNCHANGED <<cfam, family_email, varsUpdate, varsName, varsBuild, varsMerge>>

\* Reading the family_email property.
ReadFamilyEmail ==
    /\ cpc = "phone"
    /\ family_email' = FamilyEmail(cfam)
    /\ cpc' = "done"
    /\ UNCHANGED <<cfam, family_phone, varsUpdate, varsName, varsBuild, varsMerge>>

NextContact == ReadFamilyPhone \/ ReadFamilyEmail

\* The number of members holding value v in field f.
Holders(fam, f, v) == Cardinality({k \in DOMAIN Members(fam) : Members(fam)[k][f] = v})

\* The position of the first member holding value v in field f.
FirstHolder(fam, f, v) ==
    CHOOSE k \in DOMAIN Members(fam) :
        Members(fam)[k][f] = v /\ \A j \in 1..(k - 1) : Members(fam)[j][f] # v

\* The non-empty values of field f held by two or more members.
Shared(fam, f) ==
    {v \in {Members(fam)[k][f] : k \in DOMAIN Members(fam)} :
        Truthy(v) /\ Holders(fam, f, v) > 1}

\* v comes before w: more holders, or as many and met first.
Before(fam, f, v, w) ==
    \/ Holders(fam, f, v) > Holders(fam, f, w)
    \/ Holders(fam, f, v) = Holders(fam, f, w)
        /\ FirstHolder(fam, f, v) < FirstHolder(fam, f, w)

\* out is the up-to-two most shared values of field f, in order.
IsSharedTop2(fam, f, out) ==
    /\ Len(out) = (IF Cardinality(Shared(fam, f)) < 2 THEN Cardinality(Shared(fam, f)) ELSE 2)
    /\ \A k \in DOMAIN out : out[k] \in Shared(fam, f)
    /\ Len(out) = 2 => Before(fam, f, out[1], out[2])
    /\ \A k \in DOMAIN out : \A w \in Shared(fam, f) :
          (\A j \in DOMAIN out : out[j] # w) => Before(fam, f, out[k], w)

(* C5: family_phone and family_email are the up-to-two non-empty values held
   by more than one member, by descending count and then first met; so one
   shared value gives at least one entry, two shared values give exactly two,
   and the result is empty only when no non-empty value repeats.  (The claim
   as stated.) *)
C5_SharedTop2 ==
    /\ cpc \in {"phone", "done"} => IsSharedTop2(cfam, "phone", family_phone)
    /\ cpc = "done" => IsSharedTop2(cfam, "email", family_email)

IdleContact == cfam = Pending /\ family_phone = None /\ family_email = None /\ cpc = "idle"

----------------------------------------------------------------------------
(* The family builder *)

\* Family.has_parent: a parent with exactly these names.
HasParent(fam, first_name, last_name) ==
    \E k \in DOMAIN fam.parents :
        fam.parents[k].last_name = last_name /\ fam.parents[k].first_name = first_name

\* The position of the first person of group that equals new_person (0: none).
FirstEqual(group, new_person) ==
    IF \E k \in DOMAIN group : PersonEq(new_person, group[k])
    THEN CHOOSE k \in DOMAIN group :
            /\ PersonEq(new_person, group[k])
            /\ \A j \in 1..(k - 1) : ~PersonEq(new_person, group[j])
    ELSE 0

\* Family._add_person raises: the update of the person already present raises.
AddPersonRaises(group, new_person) ==
    /\ Valid(new_person)
    /\ FirstEqual(group, new_person) # 0
    /\ IsRaised(Update(group[FirstEqual(group, new_person)], new_person))

\* Family._add_person appending whether or not the person is present.
AddPersonAlwaysAppends(group, new_person) ==
    IF Valid(new_person) THEN Append(group, new_person) ELSE group

\* Family._add_person: the group afterwards (when it does not raise).
AddPerson(group, new_person) ==
    IF ~Valid(new_person) THEN group
    ELSE LET k == FirstEqual(group, new_person)
         IN  IF k = 0 THEN Append(group, new_person)
             ELSE [group EXCEPT ![k] = Update(group[k], new_person)]

\* The sort key (last_name, first_name): a's key is less than b's.
KeyLess(a, b) ==
    \/ StrLess(a.last_name, b.last_name)
    \/ a.last_name = b.last_name /\ StrLess(a.first_name, b.first_name)

\* list.sort(key=...) is stable: p goes after the persons whose key is not greater.
RECURSIVE InsertByKey(_, _)
InsertByKey(group, p) ==
    IF group = <<>> THEN <<p>>
    ELSE IF KeyLess(p, Head(group)) THEN <<p>> \o group
    ELSE <<Head(group)>> \o InsertByKey(Tail(group), p)

RECURSIVE SortGroupFrom(_, _)
SortGroupFrom(group, done) ==
    IF group = <<>> THEN done
    ELSE SortGroupFrom(Tail(group), InsertByKey(done, Head(group)))

\* list.sort(key=lambda p: (p.last_name, p.first_name))
SortGroup(group) == SortGroupFrom(group, <<>>)

\* Family.sort
SortFamily(fam) ==
    [parents |-> SortGroup(fam.parents), children |-> SortGroup(fam.children)]

\* row[k], with the source's 0-based index.
Cell(row, k) == row[k + 1]

\* int(cell) accepts the cell: a non-empty string of decimal digits.  (int also
\* accepts surrounding blanks, a sign and underscores; no modelled cell has any.)
IsInt(cell) == cell # <<>> /\ \A k \in DOMAIN cell : cell[k] \in 48..57

\* int(cell)
RECURSIVE ParseInt(_)
ParseInt(cell) ==
    IF cell = <<>> THEN 0
    ELSE 10 * ParseInt(SubSeq(cell, 1, Len(cell) - 1)) + (cell[Len(cell)] - 48)

\* The member of a row of at least 13 cells whose age cell is an integer.
MemberOf(row) ==
    PersonCombined(Cell(row, 0), Cell(row, 2), Cell(row, 1), ParseInt(Cell(row, 12)),
                   None, None, Cell(row, 3), Cell(row, 4))

Parent1Of(row) ==
    Person(Cell(row, 5), Cell(row, 6), Cell(row, 7), <<>>, 0, None, None, None, None)

Parent2Of(row) ==
    Person(Cell(row, 8), Cell(row, 9), Cell(row, 10), Cell(row, 11), 0, None, None,
           None, None)

\* What building the three persons of a row of 12 or more cells raises:
\* row[12] on a row of 12 cells, int() on the age cell, the unpacking of the
\* split name; "none" when nothing is raised.
RowRaises(row) ==
    IF Len(row) < 13 THEN "IndexError"
    ELSE IF ~IsInt(Cell(row, 12)) THEN "ValueError"
    ELSE IF IsRaised(MemberOf(row)) THEN "ValueError"
    ELSE "none"

\* The position of the first family with parent1 or parent2 as a parent (0: none).
FirstFamilyOf(fams, parent1, parent2) ==
    LET has(k) == \/ HasParent(fams[k], parent1.first_name, parent1.last_name)
                  \/ HasParent(fams[k], parent2.first_name, parent2.last_name)
    IN  IF \E k \in DOMAIN fams : has(k)
        THEN CHOOSE k \in DOMAIN fams : has(k) /\ \A j \in 1..(k - 1) : ~has(j)
        ELSE 0

\* add_or_update_child(member), add_or_update_parent(parent1),
\* add_or_update_parent(parent2): one of them raises.
MergeRaises(fam, member, parent1, parent2) ==
    \/ AddPersonRaises(fam.children, member)
    \/ AddPersonRaises(fam.parents, parent1)
    \/ /\ ~AddPersonRaises(fam.parents, parent1)
       /\ AddPersonRaises(AddPerson(fam.parents, parent1), parent2)

\* The family after the three calls.
MergeInto(fam, member, parent1, parent2) ==
    [parents |-> AddPerson(AddPerson(fam.parents, parent1), parent2),
     children |-> AddPerson(fam.children, member)]

\* len(row) < 12: continue
SkipShortRow ==
    /\ pc = "members" /\ row_i <= Len(sheet)
    /\ Len(sheet[row_i]) < 12
    /\ row_i' = row_i + 1
    /\ UNCHANGED <<sheet, adults_sheet, min_age, families, adults, adult_i, filtered,
                   num_members, fam_i, pc, err>>
    /\ UNCHANGED <<varsUpdate, varsName, varsContact, varsMerge, varsReport>>

\* Building the row's persons raises; nothing catches it and the run ends.
RowFails ==
    /\ pc = "members" /\ row_i <= Len(sheet)
    /\ Len(sheet[row_i]) >= 12
    /\ RowRaises(sheet[row_i]) # "none"
    /\ pc' = "error"
    /\ err' = RowRaises(sheet[row_i])
    /\ UNCHANGED <<sheet, adults_sheet, min_age, families, row_i, adults, adult_i,
                   filtered, num_members, fam_i>>
    /\ UNCHANGED <<varsUpdate, varsName, varsContact, varsMerge, varsReport>>

\* A family has one of the row's parents: the member and both parents are
\* added to it or merged into it.
MergeRow ==
    /\ pc = "members" /\ row_i <= Len(sheet)
    /\ Len(sheet[row_i]) >= 12
    /\ RowRaises(sheet[row_i]) = "none"
    /\ LET member == MemberOf(sheet[row_i])
           parent1 == Parent1Of(sheet[row_i])
           parent2 == Parent2Of(sheet[row_i])
           k == FirstFamilyOf(families, parent1, parent2)
       IN  /\ k # 0
           /\ ~MergeRaises(families[k], member, parent1, parent2)
           /\ families' = [families EXCEPT
                             ![k] = MergeInto(families[k], member, parent1, parent2)]
    /\ row_i' = row_i + 1
    /\ UNCHANGED <<sheet, adults_sheet, min_age, adults, adult_i, filtered,
                   num_members, fam_i, pc, err>>
    /\ UNCHANGED <<varsUpdate, varsName, varsContact, varsMerge, varsReport>>

\* The merge into the matching family raises the ValueError of Person.update.
MergeRowFails ==
    /\ pc = "members" /\ row_i <= Len(sheet)
    /\ Len(sheet[row_i]) >= 12
    /\ RowRaises(sheet[row_i]) = "none"
    /\ LET member == MemberOf(sheet[row_i])
           parent1 == Parent1Of(sheet[row_i])
           parent2 == Parent2Of(sheet[row_i])
           k == FirstFamilyOf(families, parent1, parent2)
       IN  /\ k # 0
           /\ MergeRaises(families[k], member, parent1, parent2)
    /\ pc' = "error"
    /\ err' = "ValueError"
    /\ UNCHANGED <<sheet, adults_sheet, min_age, families, row_i, adults, adult_i,
                   filtered, num_members, fam_i>>
    /\ UNCHANGED <<varsUpdate, varsName, varsContact, varsMerge, varsReport>>

\* No family has either parent: families.append(Family([parent1, parent2], [member]))
NewFamilyRow ==
    /\ pc = "members" /\ row_i <= Len(sheet)
    /\ Len(sheet[row_i]) >= 12
    /\ RowRaises(sheet[row_i]) = "none"
    /\ LET member == MemberOf(sheet[row_i])
           parent1 == Parent1Of(sheet[row_i])
           parent2 == Parent2Of(sheet[row_i])
       IN  /\ FirstFamilyOf(families, parent1, parent2) = 0
           /\ families' = Append(families, Family(<<parent1, parent2>>, <<member>>))
    /\ row_i' = row_i + 1
    /\ UNCHANGED <<sheet, adults_sheet, min_age, adults, adult_i, filtered,
                   num_members, fam_i, pc, err>>
    /\ UNCHANGED <<varsUpdate, varsName, varsContact, varsMerge, varsReport>>

\* The same step with the report opened as soon as the member loop is over.
SortFamiliesThenOpen ==
    /\ pc = "members" /\ row_i > Len(sheet)
    /\ families' = [k \in DOMAIN families |-> SortFamily(families[k])]
    /\ pc' = "parse_adults"
    /\ stdout' = IF full_html THEN Append(stdout, Line("<html><body>", <<>>)) ELSE stdout
    /\ UNCHANGED <<sheet, adults_sheet, min_age, row_i, adults, adult_i, filtered,
                   num_members, fam_i, err, full_html, roster_families, out_i, stderr>>
    /\ UNCHANGED <<varsUpdate, varsName, varsContact, varsMerge>>

\* for fam in families: fam.sort(); return families
SortFamilies ==
    /\ pc = "members" /\ row_i > Len(sheet)
    /\ families' = [k \in DOMAIN families |-> SortFamily(families[k])]
    /\ pc' = "parse_adults"
    /\ UNCHANGED <<sheet, adults_sheet, min_age, row_i, adults, adult_i, filtered,
                   num_members, fam_i, err>>
    /\ UNCHANGED <<varsUpdate, varsName, varsContact, varsMerge, varsReport>>

\* The person of an adult row: city is the location cell up to its first comma.
AdultOf(row) ==
    PersonCombined(Cell(row, 0), <<>>, Cell(row, 1), 0, None, Cell(row, 2), None,
                   Split(Cell(row, 5), <<44>>)[1])

\* get_adult_volunteers_as_people: the rows of more than 5 cells, as persons.
AdultsOf(rows) ==
    LET long == SelectSeq(rows, LAMBDA row : Len(row) > 5)
    IN  [k \in DOMAIN long |-> AdultOf(long[k])]

ParseAdults ==
    /\ pc = "parse_adults"
    /\ \A k \in DOMAIN AdultsOf(adults_sheet) : ~IsRaised(AdultsOf(adults_sheet)[k])
    /\ adults' = AdultsOf(adults_sheet)
    /\ adult_i' = 1
    /\ pc' = "adults"
    /\ UNCHANGED <<sheet, adults_sheet, min_age, families, row_i, filtered,
                   num_members, fam_i, err>>
    /\ UNCHANGED <<varsUpdate, varsName, varsContact, varsMerge, varsReport>>

\* An adult row's name cell does not unpack into two names.
ParseAdultsFails ==
    /\ pc = "parse_adults"
    /\ \E k \in DOMAIN AdultsOf(adults_sheet) : IsRaised(AdultsOf(adults_sheet)[k])
    /\ pc' = "error"
    /\ err' = "ValueError"
    /\ UNCHANGED <<sheet, adults_sheet, min_age, families, row_i, adults, adult_i,
                   filtered, num_members, fam_i>>
    /\ UNCHANGED <<varsUpdate, varsName, varsContact, varsMerge, varsReport>>

\* The position of the first family with the adult as a parent (0: none).
FirstFamilyWith(fams, adult) ==
    LET has(k) == HasParent(fams[k], adult.first_name, adult.last_name)
    IN  IF \E k \in DOMAIN fams : has(k)
        THEN CHOOSE k \in DOMAIN fams : has(k) /\ \A j \in 1..(k - 1) : ~has(j)
        ELSE 0

\* family.add_or_update_parent(adult) on the first family that has the adult
UnifyAdult ==
    /\ pc = "adults" /\ adult_i <= Len(adults)
    /\ LET adult == adults[adult_i]
           k == FirstFamilyWith(families, adult)
       IN  /\ k # 0
           /\ ~AddPersonRaises(families[k].parents, adult)
           /\ families' = [families EXCEPT
                             ![k].parents = AddPerson(families[k].parents, adult)]
    /\ adult_i' = adult_i + 1
    /\ UNCHANGED <<sheet, adults_sheet, min_age, row_i, adults, filtered,
                   num_members, fam_i, pc, err>>
    /\ UNCHANGED <<varsUpdate, varsName, varsContact, varsMerge, varsReport>>

\* The merge of the adult into the parent raises.
UnifyAdultFails ==
    /\ pc = "adults" /\ adult_i <= Len(adults)
    /\ LET adult == adults[adult_i]
           k == FirstFamilyWith(families, adult)
       IN  /\ k # 0
           /\ AddPersonRaises(families[k].parents, adult)
    /\ pc' = "error"
    /\ err' = "ValueError"
    /\ UNCHANGED <<sheet, adults_sheet, min_age, families, row_i, adults, adult_i,
                   filtered, num_members, fam_i>>
    /\ UNCHANGED <<varsUpdate, varsName, varsContact, varsMerge, varsReport>>

\* No family has the adult: families.append(Family(parents=[adult]))
StandaloneAdult ==
    /\ pc = "adults" /\ adult_i <= Len(adults)
    /\ FirstFamilyWith(families, adults[adult_i]) = 0
    /\ families' = Append(families, Family(<<adults[adult_i]>>, <<>>))
    /\ adult_i' = adult_i + 1
    /\ UNCHANGED <<sheet, adults_sheet, min_age, row_i, adults, filtered,
                   num_members, fam_i, pc, err>>
    /\ UNCHANGED <<varsUpdate, varsName, varsContact, varsMerge, varsReport>>

\* return families
ReturnFamilies ==
    /\ pc = "adults" /\ adult_i > Len(adults)
    /\ pc' = "built"
    /\ UNCHANGED <<sheet, adults_sheet, min_age, families, row_i, adults, adult_i,
                   filtered, num_members, fam_i, err>>
    /\ UNCHANGED <<varsUpdate, varsName, varsContact, varsMerge, varsReport>>

----------------------------------------------------------------------------
(* filter_min_age, as roster calls it *)

\* m.age > min_age
QualifiesStrictly(m, age) == m.age > age

\* m.age >= min_age
Qualifies(m, age) == m.age >= age

\* [m for m in fam.children if m.age >= min_age]
FilteredMembers(fam, age) == SelectSeq(fam.children, LAMBDA m : Qualifies(m, age))

\* if member_min_age: is false (no filter given, or 0)
SkipFilter ==
    /\ pc = "built" /\ min_age = 0
    /\ pc' = "filtered"
    /\ UNCHANGED <<sheet, adults_sheet, min_age, families, row_i, adults, adult_i,
                   filtered, num_members, fam_i, err>>
    /\ UNCHANGED <<varsUpdate, varsName, varsContact, varsMerge, varsReport>>

\* filtered = []; num_members = 0
StartFilter ==
    /\ pc = "built" /\ min_age # 0
    /\ filtered' = <<>>
    /\ num_members' = 0
    /\ fam_i' = 1
    /\ pc' = "filter"
    /\ UNCHANGED <<sheet, adults_sheet, min_age, families, row_i, adults, adult_i, err>>
    /\ UNCHANGED <<varsUpdate, varsName, varsContact, varsMerge, varsReport>>

\* A family with a qualifying child is kept, with its qualifying children.
FilterKeep ==
    /\ pc = "filter" /\ fam_i <= Len(families)
    /\ LET fam == families[fam_i]
           filtered_members == FilteredMembers(fam, min_age)
       IN  /\ filtered_members # <<>>
           /\ filtered' = Append(filtered, Family(fam.parents, filtered_members))
           /\ num_members' = num_members + Len(filtered_members)
    /\ fam_i' = fam_i + 1
    /\ UNCHANGED <<sheet, adults_sheet, min_age, families, row_i, adults, adult_i,
                   pc, err>>
    /\ UNCHANGED <<varsUpdate, varsName, varsContact, varsMerge, varsReport>>

\* A family without a qualifying child is left out.
FilterDrop ==
    /\ pc = "filter" /\ fam_i <= Len(families)
    /\ FilteredMembers(families[fam_i], min_age) = <<>>
    /\ fam_i' = fam_i + 1
    /\ UNCHANGED <<sheet, adults_sheet, min_age, families, row_i, adults, adult_i,
                   filtered, num_members, pc, err>>
    /\ UNCHANGED <<varsUpdate, varsName, varsContact, varsMerge, varsReport>>

\* return filtered, num_members; roster then prints the counts to stderr.
ReturnFiltered ==
    /\ pc = "filter" /\ fam_i > Len(families)
    /\ pc' = "filtered"
    /\ stderr' = Append(stderr, Line("{0} members in {1} families after filter",
                                     <<num_members, Len(filtered)>>))
    /\ UNCHANGED <<sheet, adults_sheet, min_age, families, row_i, adults, adult_i,
                   filtered, num_members, fam_i, err>>
    /\ UNCHANGED <<full_html, roster_families, out_i, stdout>>
    /\ UNCHANGED <<varsUpdate, varsName, varsContact, varsMerge>>

----------------------------------------------------------------------------
(* roster: the report, printed once the families are built and filtered *)

\* Family.last_names
LastNames(fam) == {Members(fam)[k].last_name : k \in DOMAIN Members(fam)}

\* fam.family_name
FamilyNameOf(fam) == FamilyName(LastNames(fam))

\* Family.individual is a person: the family is one parent or one child.
HasIndividual(fam) ==
    \/ Len(fam.parents) = 1 /\ fam.children = <<>>
    \/ Len(fam.children) = 1 /\ fam.parents = <<>>

\* Family.individual, when it is a person.
Individual(fam) ==
    IF Len(fam.parents) = 1 /\ fam.children = <<>> THEN fam.parents[1]
    ELSE fam.children[1]

\* Family.family_address, when it raises nothing.
FamilyAddress(fam) ==
    IF fam.children # <<>> THEN <<fam.children[1].address, fam.children[1].city>>
    ELSE <<fam.parents[1].city>>

\* What ", ".join(fam.family_address) raises: the IndexError of parents[0] in
\* a family without members, the TypeError of joining None; "none" otherwise.
AddressRaises(fam) ==
    IF fam.children = <<>> /\ fam.parents = <<>> THEN "IndexError"
    ELSE IF \E k \in DOMAIN FamilyAddress(fam) : FamilyAddress(fam)[k] = None
         THEN "TypeError"
         ELSE "none"

\* families.sort(key=lambda fam: fam.family_name): the families up to and
\* including those whose name is not above fam's, fam, then the others.
InsertByFamilyName(fams, fam) ==
    LET above == {k \in DOMAIN fams : StrLess(FamilyNameOf(fam), FamilyNameOf(fams[k]))}
        at == IF above = {} THEN Len(fams) + 1
              ELSE CHOOSE k \in above : \A j \in above : k <= j
    IN  SubSeq(fams, 1, at - 1) \o <<fam>> \o SubSeq(fams, at, Len(fams))

RECURSIVE SortByFamilyNameFrom(_, _)
SortByFamilyNameFrom(fams, done) ==
    IF fams = <<>> THEN done
    ELSE SortByFamilyNameFrom(Tail(fams), InsertByFamilyName(done, Head(fams)))

\* list.sort is stable: families of the same name keep their order.
SortByFamilyName(fams) == SortByFamilyNameFrom(fams, <<>>)

\* value in values
In(value, values) == \E k \in DOMAIN values : values[k] = value

\* print_table_row: one line when the value is truthy, nothing otherwise.
PrintTableRow(heading, value, l_padding) ==
    IF Truthy(value)
    THEN <<Line("{0}<tr><th>{1}</th><td>{2}</td></tr>", <<l_padding, heading, value>>)>>
    ELSE <<>>

\* value if value not in shared else None
Unshared(value, shared) == IF In(value, shared) THEN None ELSE value

\* The first line of a family's block.
DivLine(fam) ==
    Line("<div class=\"roster_family\" id=\"{0}\"><a name=\"{0}\"></a>",
         <<FamilyNameOf(fam)>>)

\* The lines of the branch of a family that is one person.
IndividualLines(indiv) ==
    <<Line("  <h3>{0}, {1}</h3>", <<indiv.last_name, indiv.first_name>>)>>
    \o (IF Truthy(indiv.role) THEN <<Line("  <h4>{0}</h4>", <<indiv.role>>)>> ELSE <<>>)
    \o <<Line("  <table>", <<>>)>>
    \o PrintTableRow("Email", indiv.email, 4)
    \o PrintTableRow("Phone", indiv.phone, 4)
    \o PrintTableRow("Address", indiv.address, 4)
    \o PrintTableRow("City", indiv.city, 4)
    \o <<Line("  </table>", <<>>)>>

\* The shared emails, then the shared phones, one row each.
RECURSIVE SharedRows(_, _)
SharedRows(heading, values) ==
    IF values = <<>> THEN <<>>
    ELSE PrintTableRow(heading, Head(values), 4) \o SharedRows(heading, Tail(values))

\* The lines of the other branch up to the address row, whose argument is
\* evaluated after they are printed.
FamilyHeadLines(fam) ==
    <<Line("  <h3>{0}</h3>", <<FamilyNameOf(fam)>>), Line("  <table>", <<>>)>>
    \o SharedRows("Email", FamilyEmail(fam))
    \o SharedRows("Phone", FamilyPhone(fam))

\* The lines of one adult: name, role when truthy, unshared email and phone.
AdultLines(fam, adult) ==
    <<Line("        <tr><th colspan=\"2\">{0} {1}</th></tr>",
           <<adult.first_name, adult.last_name>>)>>
    \o (IF Truthy(adult.role)
        THEN <<Line("        <tr><td colspan=\"2\">{0}</td></tr>", <<adult.role>>)>>
        ELSE <<>>)
    \o PrintTableRow("Email", Unshared(adult.email, FamilyEmail(fam)), 8)
    \o PrintTableRow("Phone", Unshared(adult.phone, FamilyPhone(fam)), 8)

\* The lines of one child: name, unshared email and phone.
ChildLines(fam, child) ==
    <<Line("        <tr><th colspan=\"2\">{0} {1}</th></tr>",
           <<child.first_name, child.last_name>>)>>
    \o PrintTableRow("Email", Unshared(child.email, FamilyEmail(fam)), 8)
    \o PrintTableRow("Phone", Unshared(child.phone, FamilyPhone(fam)), 8)

RECURSIVE AdultsLines(_, _)
AdultsLines(fam, group) ==
    IF group = <<>> THEN <<>>
    ELSE AdultLines(fam, Head(group)) \o AdultsLines(fam, Tail(group))

RECURSIVE ChildrenLines(_, _)
ChildrenLines(fam, group) ==
    IF group = <<>> THEN <<>>
    ELSE ChildLines(fam, Head(group)) \o ChildrenLines(fam, Tail(group))

\* The lines of the other branch from the address row on.
FamilyTailLines(fam) ==
    PrintTableRow("Address", Join(CommaSpace, FamilyAddress(fam)), 4)
    \o <<Line("  </table>", <<>>), Line("  <table>", <<>>),
         Line("    <tr><th>Adults</th><th>Children</th><td>", <<>>),
         Line("      <tr><td><table>", <<>>)>>
    \o AdultsLines(fam, fam.parents)
    \o <<Line("      </table></td><td><table>", <<>>)>>
    \o ChildrenLines(fam, fam.children)
    \o <<Line("      </table></td></tr>", <<>>), Line("  </table>", <<>>)>>

\* families.sort(key=lambda fam: fam.family_name), on the filter's list when
\* member_min_age is truthy; then the opening line under full_html.
SortRoster ==
    /\ pc = "filtered"
    /\ roster_families' = SortByFamilyName(IF min_age # 0 THEN filtered ELSE families)
    /\ stdout' = IF full_html THEN Append(stdout, Line("<html><body>", <<>>)) ELSE stdout
    /\ out_i' = 1
    /\ pc' = "report"
    /\ UNCHANGED <<sheet, adults_sheet, min_age, families, row_i, adults, adult_i,
                   filtered, num_members, fam_i, err, full_html, stderr>>
    /\ UNCHANGED <<varsUpdate, varsName, varsContact, varsMerge>>

\* The block of a family that is one person.
PrintIndividual ==
    /\ pc = "report" /\ out_i <= Len(roster_families)
    /\ HasIndividual(roster_families[out_i])
    /\ stdout' = stdout \o <<DivLine(roster_families[out_i])>>
                   \o IndividualLines(Individual(roster_families[out_i]))
                   \o <<Line("</div>", <<>>)>>
    /\ out_i' = out_i + 1
    /\ UNCHANGED <<sheet, adults_sheet, min_age, families, row_i, adults, adult_i,
                   filtered, num_members, fam_i, pc, err, full_html, roster_families,
                   stderr>>
    /\ UNCHANGED <<varsUpdate, varsName, varsContact, varsMerge>>

\* The block of a family of several persons.
PrintFamily ==
    /\ pc = "report" /\ out_i <= Len(roster_families)
    /\ ~HasIndividual(roster_families[out_i])
    /\ AddressRaises(roster_families[out_i]) = "none"
    /\ stdout' = stdout \o <<DivLine(roster_families[out_i])>>
                   \o FamilyHeadLines(roster_families[out_i])
                   \o FamilyTailLines(roster_families[out_i])
                   \o <<Line("</div>", <<>>)>>
    /\ out_i' = out_i + 1
    /\ UNCHANGED <<sheet, adults_sheet, min_age, families, row_i, adults, adult_i,
                   filtered, num_members, fam_i, pc, err, full_html, roster_families,
                   stderr>>
    /\ UNCHANGED <<varsUpdate, varsName, varsContact, varsMerge>>

\* The address of the family raises after the head of its block is printed;
\* nothing catches it and the run ends.
PrintFamilyFails ==
    /\ pc = "report" /\ out_i <= Len(roster_families)
    /\ ~HasIndividual(roster_families[out_i])
    /\ AddressRaises(roster_families[out_i]) # "none"
    /\ stdout' = stdout \o <<DivLine(roster_families[out_i])>>
                   \o FamilyHeadLines(roster_families[out_i])
    /\ pc' = "report_error"
    /\ err' = AddressRaises(roster_families[out_i])
    /\ UNCHANGED <<sheet, adults_sheet, min_age, families, row_i, adults, adult_i,
                   filtered, num_members, fam_i, full_html, roster_families, out_i,
                   stderr>>
    /\ UNCHANGED <<varsUpdate, varsName, varsContact, varsMerge>>

\* The loop is over: the closing line under full_html, and roster returns.
CloseReport ==
    /\ pc = "report" /\ out_i > Len(roster_families)
    /\ stdout' = IF full_html THEN Append(stdout, Line("</body></html>", <<>>)) ELSE stdout
    /\ pc' = "done"
    /\ UNCHANGED <<sheet, adults_sheet, min_age, families, row_i, adults, adult_i,
                   filtered, num_members, fam_i, err, full_html, roster_families, out_i,
                   stderr>>
    /\ UNCHANGED <<varsUpdate, varsName, varsContact, varsMerge>>

Next ==
    \/ SkipShortRow \/ RowFails \/ MergeRow \/ MergeRowFails \/ NewFamilyRow
    \/ SortFamilies \/ ParseAdults \/ ParseAdultsFails
    \/ UnifyAdult \/ UnifyAdultFails \/ StandaloneAdult \/ ReturnFamilies
    \/ SkipFilter \/ StartFilter \/ FilterKeep \/ FilterDrop \/ ReturnFiltered
    \/ SortRoster \/ PrintIndividual \/ PrintFamily \/ PrintFamilyFails \/ CloseReport

----------------------------------------------------------------------------
(* The sheets the roster operation is run on *)

\* The largest number of rows of the Members sheet.
MaxRows == 2

\* The largest number of rows of the Adult Volunteers sheet.
MaxAdults == 2

\* The largest number of rows of a Members sheet that is filtered by age.
MaxAgeRows == 3

\* "Last, First"
Combined(last_name, first_name) == last_name \o CommaSpace \o first_name

\* (first_name, last_name) of parents: none, "A" "S", "a" "s" and "B" "T".
NoParent == <<<<>>, <<>>>>
ParentAS == <<<<65>>, <<83>>>>
ParentLowerAS == <<<<97>>, <<115>>>>
ParentBT == <<<<66>>, <<84>>>>

\* Name cells of members: "N, C" and "M, D".
MemberCN == Combined(<<78>>, <<67>>)
MemberDM == Combined(<<77>>, <<68>>)

\* A row of the Members sheet: the 13 cells of the schema, with email "e",
\* address "d" and city "c" for the member.
MemberRow(name, parent1, phone1, parent2, age) ==
    <<name, <<101>>, <<>>, <<100>>, <<99>>, parent1[1], parent1[2], phone1,
      parent2[1], parent2[2], <<>>, <<>>, age>>

\* A row of the Adult Volunteers sheet: name, email "v", role, two cells that
\* are not read, location.
AdultRow(name, role, location) == <<name, <<118>>, role, <<>>, <<>>, location>>

\* Rows for grouping: two members, each parent absent or one of three names.
GroupRows ==
    {MemberRow(m, p1, <<>>, p2, <<54>>) :
        m \in {MemberCN, MemberDM},
        p1 \in {NoParent, ParentAS, ParentLowerAS, ParentBT},
        p2 \in {NoParent, ParentAS, ParentBT}}

\* Rows for the families adult volunteers are unified with: parents with the
\* phones "5", "7" and none.
VolunteerRows ==
    {MemberRow(MemberCN, ParentAS, <<53>>, ParentBT, <<54>>),
     MemberRow(MemberDM, ParentBT, <<>>, ParentAS, <<54>>),
     MemberRow(MemberCN, ParentAS, <<>>, NoParent, <<54>>),
     MemberRow(MemberCN, ParentAS, <<55>>, NoParent, <<54>>),
     MemberRow(MemberDM, NoParent, <<>>, NoParent, <<54>>)}

\* Adult rows: "S, A" of city "x" (location "x, CA") with role "r", "S, A" of
\* city "y" with role "q", "s, a", "T, B" without location, and a row with an
\* empty name cell.
AdultRows ==
    {AdultRow(Combined(<<83>>, <<65>>), <<114>>, <<120, 44, 32, 67, 65>>),
     AdultRow(Combined(<<83>>, <<65>>), <<113>>, <<121>>),
     AdultRow(Combined(<<115>>, <<97>>), <<114>>, <<120>>),
     AdultRow(Combined(<<84>>, <<66>>), <<114>>, <<>>),
     AdultRow(<<>>, <<114>>, <<120>>)}

\* A well-formed row, the same cut to 11 and to 12 cells, with the age cells
\* "x" and "", and with a name cell without ", ".
MalformedRows ==
    LET good == MemberRow(MemberCN, ParentAS, <<>>, NoParent, <<54>>)
    IN  {good, SubSeq(good, 1, 11), SubSeq(good, 1, 12),
         MemberRow(MemberCN, ParentAS, <<>>, NoParent, <<120>>),
         MemberRow(MemberCN, ParentAS, <<>>, NoParent, <<>>),
         MemberRow(<<78>>, ParentAS, <<>>, NoParent, <<54>>)}

\* Adult rows that are skipped (5 cells) or whose name cell has no ", ".
MalformedAdultRows ==
    {SubSeq(AdultRow(Combined(<<83>>, <<65>>), <<114>>, <<120>>), 1, 5),
     AdultRow(<<83>>, <<114>>, <<120>>)}

\* Rows for the age filter: members of age 4 and 6 in two families.
AgeRows ==
    {MemberRow(m, p1, <<>>, NoParent, age) :
        m \in {MemberCN, MemberDM}, p1 \in {ParentAS, ParentBT},
        age \in {<<52>>, <<54>>}}

\* Rows whose member has no name, with two parents, one and none, and a row
\* with a named member.
UnnamedRows ==
    {MemberRow(<<>>, ParentAS, <<>>, ParentBT, <<54>>),
     MemberRow(<<>>, ParentAS, <<>>, NoParent, <<54>>),
     MemberRow(<<>>, NoParent, <<>>, NoParent, <<54>>),
     MemberRow(MemberCN, ParentBT, <<>>, NoParent, <<54>>)}

\* The runs: (Members sheet, Adult Volunteers sheet, member_min_age), each
\* with and without full_html.
Inputs ==
    ((SeqsUpTo(GroupRows, MaxRows) \X {<<>>} \X {0})
     \cup (SeqsUpTo(VolunteerRows, MaxRows) \X SeqsUpTo(AdultRows, MaxAdults) \X {0})
     \cup (SeqsUpTo(MalformedRows, MaxRows) \X SeqsUpTo(MalformedAdultRows, MaxAdults)
             \X {0})
     \cup (SeqsUpTo(AgeRows, MaxAgeRows) \X {<<>>} \X {5, 6})
     \cup (SeqsUpTo(UnnamedRows, MaxRows) \X {<<>>} \X {0}))
    \X BOOLEAN

InitBuild ==
    /\ \E inp \in Inputs :
        /\ sheet = inp[1][1]
        /\ adults_sheet = inp[1][2]
        /\ min_age = inp[1][3]
        /\ full_html = inp[2]
    /\ roster_families = <<>>
    /\ out_i = 1
    /\ stdout = <<>>
    /\ stderr = <<>>
    /\ families = <<>>
    /\ row_i = 1
    /\ adults = <<>>
    /\ adult_i = 1
    /\ filtered = <<>>
    /\ num_members = 0
    /\ fam_i = 1
    /\ pc = "members"
    /\ err = "none"

IdleBuild ==
    /\ sheet = <<>> /\ adults_sheet = <<>> /\ min_age = 0 /\ families = <<>>
    /\ row_i = 1 /\ adults = <<>> /\ adult_i = 1 /\ filtered = <<>>
    /\ num_members = 0 /\ fam_i = 1 /\ pc = "idle" /\ err = "none"
    /\ full_html = FALSE /\ roster_families = <<>> /\ out_i = 1
    /\ stdout = <<>> /\ stderr = <<>>

----------------------------------------------------------------------------
(* The claims about the builder and the filter *)

\* The row is well formed: 13 cells, an integer age, a name cell that splits.
WellFormed(row) == Len(row) >= 13 /\ RowRaises(row) = "none"

\* The positions of the families with a parent of p's identity.
FamiliesWithIdentity(fams, p) ==
    {k \in DOMAIN fams : \E j \in DOMAIN fams[k].parents : PersonEq(fams[k].parents[j], p)}

\* The least of a non-empty set of positions.
Least(S) == CHOOSE k \in S : \A j \in S : k <= j

(* C1: a step of the member loop on a well-formed row that completes: when a
   family already has a parent of parent1's or parent2's identity (names
   compared case-insensitively), the member is added to or merged into the
   children of the first such family and no family is appended; otherwise
   Family([parent1, parent2], [member]) is appended.  (The claim as stated.) *)
C1_GroupsByIdentity ==
    [][(pc = "members" /\ row_i <= Len(sheet) /\ WellFormed(sheet[row_i])
          /\ row_i' = row_i + 1) =>
        LET member == MemberOf(sheet[row_i])
            parent1 == Parent1Of(sheet[row_i])
            parent2 == Parent2Of(sheet[row_i])
            with == FamiliesWithIdentity(families, parent1)
                        \cup FamiliesWithIdentity(families, parent2)
        IN  IF with # {}
            THEN /\ Len(families') = Len(families)
                 /\ families'[Least(with)].children
                        = AddPerson(families[Least(with)].children, member)
            ELSE families' = Append(families, Family(<<parent1, parent2>>, <<member>>))
      ]_vars

\* The row is malformed: too short to hold the cells 0..12, or its age cell
\* is no integer.
Malformed(row) == Len(row) < 13 \/ ~IsInt(Cell(row, 12))

(* C4: a malformed member row (too short for the cells 0..12, or with an age
   cell that is no integer) is skipped: the run never ends with an exception
   raised at such a row.  (The claim as stated.) *)
C4_MalformedRowsSkipped ==
    ~(pc = "error" /\ row_i <= Len(sheet) /\ Malformed(sheet[row_i]))

\* The valid parents named in a row, as (first_name, last_name) pairs.
ParentNames(row) ==
    {<<p.first_name, p.last_name>> : p \in {q \in {Parent1Of(row), Parent2Of(row)} : Valid(q)}}

\* The first n rows are well formed, with valid member names and with valid
\* parent names that no two of the rows share.
DisjointRows(rows, n) ==
    /\ \A k \in 1..n : WellFormed(rows[k]) /\ Valid(MemberOf(rows[k]))
    /\ \A k \in 1..n : \A j \in 1..n :
          k # j => ParentNames(rows[k]) \cap ParentNames(rows[j]) = {}

\* The number of member rows the loop has passed.
RowsDone == IF pc = "members" THEN row_i - 1 ELSE Len(sheet)

(* C8: while and after the member loop runs over well-formed rows with valid
   member names whose valid parent names are pairwise disjoint across rows,
   there is exactly one family per row passed, each with exactly one child,
   and no family holds a parent with an empty name. *)
C8_DisjointRowsGiveSingleChildFamilies ==
    (pc \in {"members", "parse_adults"} /\ DisjointRows(sheet, RowsDone)) =>
        /\ Len(families) = RowsDone
        /\ \A k \in DOMAIN families :
              /\ Len(families[k].children) = 1
              /\ \A j \in DOMAIN families[k].parents : Valid(families[k].parents[j])

\* Two rows that each lack a parent have been grouped into two families.
C8_Witness ==
    /\ pc = "parse_adults" /\ Len(sheet) >= 2 /\ DisjointRows(sheet, Len(sheet))
    /\ \A k \in DOMAIN sheet : ~Valid(Parent2Of(sheet[k])) /\ Valid(Parent1Of(sheet[k]))
    /\ Len(families) = Len(sheet)

\* group is in ascending (last_name, first_name) order.
Ascending(group) ==
    \A k \in DOMAIN group : \A j \in DOMAIN group : k < j => ~KeyLess(group[j], group[k])

(* C10: once the families are sorted, and through volunteer unification to
   the returned list, every family's parents and children are in ascending
   (last_name, first_name) order. *)
C10_FamiliesStaySorted ==
    (pc \in {"parse_adults", "adults", "built"}) =>
        \A k \in DOMAIN families :
            Ascending(families[k].parents) /\ Ascending(families[k].children)

\* A returned list with a two-parent family into which a volunteer was merged
\* (the parent has the volunteer's role) and with a standalone family.
C10_Witness ==
    /\ pc = "built"
    /\ \E k \in DOMAIN families :
          /\ Len(families[k].parents) >= 2 /\ families[k].children # <<>>
          /\ families[k].parents[1].role # None
    /\ \E k \in DOMAIN families :
          Len(families[k].parents) = 1 /\ families[k].children = <<>>

\* The positions of the families with a child of at least the given age.
Qualifying(fams, age) ==
    {k \in DOMAIN fams : \E j \in DOMAIN fams[k].children : fams[k].children[j].age >= age}

\* The k-th least element of a set of positions.
RECURSIVE Nth(_, _)
Nth(S, k) == IF k = 1 THEN Least(S) ELSE Nth(S \ {Least(S)}, k - 1)

\* The qualifying children of a family, in their order.
OfAge(fam, age) == SelectSeq(fam.children, LAMBDA c : c.age >= age)

\* The total number of children of a list of families.
RECURSIVE ChildCount(_)
ChildCount(fams) ==
    IF fams = <<>> THEN 0 ELSE Len(Head(fams).children) + ChildCount(Tail(fams))

\* What filter_min_age has returned is what the claim says of it.
FilterResultIsRight ==
    (pc = "filtered" /\ min_age # 0) =>
        /\ Len(filtered) = Cardinality(Qualifying(families, min_age))
        /\ \A k \in DOMAIN filtered :
              LET fam == families[Nth(Qualifying(families, min_age), k)]
              IN  /\ filtered[k].parents = fam.parents
                  /\ filtered[k].children = OfAge(fam, min_age)
                  /\ filtered[k].children # <<>>
        /\ num_members = ChildCount(filtered)

(* C7: filter_min_age returns, in input order, one family for each input
   family with a child of age >= min_age, with that family's parents and its
   qualifying children in their order; families without a qualifying child
   are absent; the count is the number of children returned; and no step of
   the filter changes the input list of families. *)
C7_FilterKeepsQualifying ==
    /\ []FilterResultIsRight
    /\ [][(pc \in {"built", "filter"}) => (families' = families)]_vars

\* A filter that dropped one family and kept another with fewer children.
C7_Witness ==
    /\ pc = "filtered" /\ min_age # 0
    /\ Len(filtered) = 1 /\ Len(families) = 2
    /\ \E k \in DOMAIN families :
          /\ Len(families[k].children) = 2
          /\ Len(filtered[1].children) = 1
          /\ filtered[1].parents = families[k].parents

\* A merge of the builder is about to raise: the member loop is at a row whose
\* merge into its family raises, or the unification loop at an adult whose
\* merge into the parent of its family raises.
BuildMergeRaises ==
    \/ /\ pc = "members" /\ row_i <= Len(sheet)
       /\ Len(sheet[row_i]) >= 12 /\ RowRaises(sheet[row_i]) = "none"
       /\ LET parent1 == Parent1Of(sheet[row_i])
              parent2 == Parent2Of(sheet[row_i])
              k == FirstFamilyOf(families, parent1, parent2)
          IN  k # 0 /\ MergeRaises(families[k], MemberOf(sheet[row_i]), parent1, parent2)
    \/ /\ pc = "adults" /\ adult_i <= Len(adults)
       /\ LET k == FirstFamilyWith(families, adults[adult_i])
          IN  k # 0 /\ AddPersonRaises(families[k].parents, adults[adult_i])

\* Nothing has been printed, to standard output or to standard error.
NothingEmitted == stdout = <<>> /\ stderr = <<>>

\* Member grouping and volunteer unification are both over, on all rows.
BuildingCompleted ==
    /\ pc \in {"built", "filter", "filtered", "report"}
    /\ row_i > Len(sheet)
    /\ adults = AdultsOf(adults_sheet) /\ adult_i > Len(adults)

(* C11: in the roster operation nothing is printed while the families are
   built nor after building has failed; every step that prints starts from a
   state where member grouping and volunteer unification are over on all
   rows; a merge that raises while building ends the run with its ValueError,
   and no step follows. *)
C11_NoOutputBeforeBuildingCompletes ==
    /\ [](pc \in {"members", "parse_adults", "adults", "error"} => NothingEmitted)
    /\ [][(stdout' # stdout \/ stderr' # stderr) => BuildingCompleted]_vars
    /\ [][BuildMergeRaises => (pc' = "error" /\ err' = "ValueError")]_vars
    /\ [][pc # "error"]_vars

\* Under full_html, the unification of an adult with a parent of a family
\* built from the member rows has raised and ended the run.
C11_Witness ==
    /\ pc = "error" /\ err = "ValueError" /\ full_html
    /\ row_i > Len(sheet) /\ families # <<>>
    /\ adults # <<>> /\ adult_i <= Len(adults)
    /\ FirstFamilyWith(families, adults[adult_i]) # 0
    /\ NothingEmitted

----------------------------------------------------------------------------
(* The merge operation: roster_merge *)

\* A dict, as its (key, value) items in insertion order: d[key] = value.
DictSet(d, key, value) ==
    IF \E k \in DOMAIN d : d[k][1] = key
    THEN [k \in DOMAIN d |-> IF d[k][1] = key THEN <<key, value>> ELSE d[k]]
    ELSE Append(d, <<key, value>>)

\* {row[col]: row for row in rows if row}, filled from the k-th row on.
RECURSIVE DictOfRows(_, _, _, _)
DictOfRows(rows, col, k, d) ==
    IF k > Len(rows) THEN d
    ELSE IF rows[k] = <<>> THEN DictOfRows(rows, col, k + 1, d)
    ELSE DictOfRows(rows, col, k + 1, DictSet(d, Cell(rows[k], col), rows[k]))

\* dict.keys()
Keys(d) == {d[k][1] : k \in DOMAIN d}

\* get_members_and_volunteers_from_ucnar_ods: the adult dictionary, which the
\* source builds from the rows of the Members sheet.
AdultsDict(members, adult_rows) == DictOfRows(members, 1, 1, <<>>)

\* The rows of the items of d whose key is not in known.
RECURSIVE RowsNotIn(_, _)
RowsNotIn(d, known) ==
    IF d = <<>> THEN <<>>
    ELSE (IF Head(d)[1] \in known THEN <<>> ELSE <<Head(d)[2]>>)
            \o RowsNotIn(Tail(d), known)

\* extra_in_mailchimp
ExtraInMailchimp(mailchimp, members, adult_dict) ==
    RowsNotIn(mailchimp, Keys(members) \cup Keys(adult_dict))

\* missing_from_mailchimp: (missing_members, missing_adults)
MissingFromMailchimp(mailchimp, members, adult_dict) ==
    <<RowsNotIn(members, Keys(mailchimp)), RowsNotIn(adult_dict, Keys(mailchimp))>>

\* The largest number of rows of each sheet and of the mailing list.
MaxListRows == 2

\* Roster rows (name, email): "m" with "a", "n" with "b", "o" with "a", and
\* an empty row; adult rows: "v" with "c", "w" with "b".
RosterMemberRows == {<<<<109>>, <<97>>>>, <<<<110>>, <<98>>>>, <<<<111>>, <<97>>>>, <<>>}
RosterAdultRows == {<<<<118>>, <<99>>>>, <<<<119>>, <<98>>>>}

\* Mailing-list rows (email, name): "b", "c" and "d".
MailchimpRows == {<<<<98>>, <<120>>>>, <<<<99>>, <<121>>>>, <<<<100>>, <<122>>>>}

InitMerge ==
    /\ members_rows \in SeqsUpTo(RosterMemberRows, MaxListRows)
    /\ volunteer_rows \in SeqsUpTo(RosterAdultRows, MaxListRows)
    /\ mailchimp_rows \in SeqsUpTo(MailchimpRows, MaxListRows)
    /\ members_email_dict = <<>>
    /\ adults_email_dict = <<>>
    /\ mailchimp_email_dict = <<>>
    /\ possible_rm = <<>>
    /\ possible_add = <<>>
    /\ mpc = "start"

\* roster_merge's first call.  It names get_members_and_volunteers, which the
\* module does not define; the function meant is
\* get_members_and_volunteers_from_ucnar_ods, modelled here.
LoadRoster ==
    /\ mpc = "start"
    /\ members_email_dict' = DictOfRows(members_rows, 1, 1, <<>>)
    /\ adults_email_dict' = AdultsDict(members_rows, volunteer_rows)
    /\ mpc' = "mailchimp"
    /\ UNCHANGED <<members_rows, volunteer_rows, mailchimp_rows, mailchimp_email_dict,
                   possible_rm, possible_add>>
    /\ UNCHANGED <<varsUpdate, varsName, varsContact, varsBuild>>

\* get_mailchip_data: {row[0]: row for row in sheet}
LoadMailchimp ==
    /\ mpc = "mailchimp"
    /\ mailchimp_email_dict' = DictOfRows(mailchimp_rows, 0, 1, <<>>)
    /\ mpc' = "remove"
    /\ UNCHANGED <<members_rows, volunteer_rows, mailchimp_rows, members_email_dict,
                   adults_email_dict, possible_rm, possible_add>>
    /\ UNCHANGED <<varsUpdate, varsName, varsContact, varsBuild>>

\* possible_remove.csv is written from extra_in_mailchimp.
WritePossibleRemove ==
    /\ mpc = "remove"
    /\ possible_rm' = ExtraInMailchimp(mailchimp_email_dict, members_email_dict,
                                       adults_email_dict)
    /\ mpc' = "add"
    /\ UNCHANGED <<members_rows, volunteer_rows, mailchimp_rows, members_email_dict,
                   adults_email_dict, mailchimp_email_dict, possible_add>>
    /\ UNCHANGED <<varsUpdate, varsName, varsContact, varsBuild>>

\* possible_add.csv is written: the missing members, then the missing adults.
WritePossibleAdd ==
    /\ mpc = "add"
    /\ LET missing == MissingFromMailchimp(mailchimp_email_dict, members_email_dict,
                                           adults_email_dict)
       IN  possible_add' = missing[1] \o missing[2]
    /\ mpc' = "done"
    /\ UNCHANGED <<members_rows, volunteer_rows, mailchimp_rows, members_email_dict,
                   adults_email_dict, mailchimp_email_dict, possible_rm>>
    /\ UNCHANGED <<varsUpdate, varsName, varsContact, varsBuild>>

NextMerge == LoadRoster \/ LoadMailchimp \/ WritePossibleRemove \/ WritePossibleAdd

\* The rows of a sheet that reach its dictionary (the last row of each email),
\* in the dictionary's order, whose email is not a mailing-list key.
MissingRowsOf(rows) ==
    RowsNotIn(DictOfRows(rows, 1, 1, <<>>), {Cell(r, 0) : r \in Range(mailchimp_rows)})

(* C9: the rows written as possible additions are the Members-sheet rows whose
   email is absent from the mailing list followed by the Adult Volunteers-sheet
   rows whose email is absent from the mailing list.  (The claim as stated,
   with a sheet's rows taken as its dictionary holds them.) *)
C9_PossibleAddIsMembersThenAdults ==
    mpc = "done" =>
        possible_add = MissingRowsOf(members_rows) \o MissingRowsOf(volunteer_rows)

IdleMerge ==
    /\ members_rows = <<>> /\ volunteer_rows = <<>> /\ mailchimp_rows = <<>>
    /\ members_email_dict = <<>> /\ adults_email_dict = <<>>
    /\ mailchimp_email_dict = <<>> /\ possible_rm = <<>> /\ possible_add = <<>>
    /\ mpc = "idle"

IdleName == last_names = {} /\ family_name = None /\ npc = "idle"

\* Each specification runs one part of the program on its inputs and leaves
\* the state of the other parts idle.
StartUpdate == InitUpdate /\ IdleName /\ IdleContact /\ IdleBuild /\ IdleMerge

StartName == InitName /\ IdleUpdate /\ IdleContact /\ IdleBuild /\ IdleMerge

StartContact == InitContact /\ IdleUpdate /\ IdleName /\ IdleBuild /\ IdleMerge

StartMerge == InitMerge /\ IdleUpdate /\ IdleName /\ IdleContact /\ IdleBuild

Init == InitBuild /\ IdleUpdate /\ IdleName /\ IdleContact /\ IdleMerge

SpecUpdate == StartUpdate /\ [][NextUpdate]_vars

SpecName == StartName /\ [][NextName]_vars

SpecContact == StartContact /\ [][NextContact]_vars

SpecMerge == StartMerge /\ [][NextMerge]_vars

Spec == Init /\ [][Next]_vars

====
